---------------------------- MODULE Spec2Model ----------------------------
(***************************************************************************)
(* Monte Carlo tree search (monte_carlo_tree_search.py) over the Node      *)
(* contract, with the tic-tac-toe board (tictactoe.py) and the one-ply     *)
(* two-outcome example domain of the specification as Node types.          *)
(*                                                                         *)
(* Python values: True, False and None are the strings "True", "False"     *)
(* and "None".  An Optional[Node] is a sequence of length at most one.     *)
(* Rewards are kept in halves: the float r is the integer 2 * r, so that   *)
(* 0, 0.5 and 1 are 0, 1 and 2 and the sums in Q stay exact.               *)
(***************************************************************************)
EXTENDS Integers, Sequences, FiniteSets, TLC

VARIABLES
    Q,          \* MCTS.Q: total reward of each node (defaultdict), in halves
    N,          \* MCTS.N: total visit count of each node (defaultdict)
    children,   \* MCTS.children: dict node -> set of nodes
    pc,         \* position of the running do_rollout, "idle" between calls
    root,       \* argument of the running (or last) do_rollout, as Optional
    node,       \* local `node` of _select and of _simulate, as Optional
    path,       \* local `path` of _select / do_rollout
    invert_reward, \* local of _simulate
    reward,     \* local `reward` of do_rollout: the value _simulate returned
    ret,        \* the last call and its outcome
    start,      \* the position the session starts from
    rollouts,   \* number of completed do_rollout calls
    chooses,    \* number of choose calls
    onPath      \* history: node -> number of completed rollouts whose path held it

vars == <<Q, N, children, pc, root, node, path, invert_reward, reward, ret,
          start, rollouts, chooses, onPath>>

(***************************************************************************)
(* Bounds of the model.                                                    *)
(***************************************************************************)
MaxRollouts == 4
MaxChooses == 2

(***************************************************************************)
(* Reward scale: the float 1 of `1 - reward`.                              *)
(***************************************************************************)
One == 2

(***************************************************************************)
(* tictactoe.py                                                            *)
(***************************************************************************)
TicTacToeBoard(tup, turn, winner, terminal) ==
    [tup |-> tup, turn |-> turn, winner |-> winner, terminal |-> terminal]

\* Python's `not v` on True, False and None: not None is True
Not(b) == IF b = "True" THEN "False" ELSE "True"

\* _winning_combos, 0-based indices in the order the generator yields them
_winning_combos ==
    << <<0, 1, 2>>, <<3, 4, 5>>, <<6, 7, 8>>,
       <<0, 3, 6>>, <<1, 4, 7>>, <<2, 5, 8>>,
       <<0, 4, 8>>, <<2, 4, 6>> >>

\* tup[i] with Python's 0-based index
At(tup, i) == tup[i + 1]

RECURSIVE FindWinnerFrom(_, _)
FindWinnerFrom(tup, k) ==
    IF k > Len(_winning_combos) THEN "None"
    ELSE LET c  == _winning_combos[k]
             v1 == At(tup, c[1])
             v2 == At(tup, c[2])
             v3 == At(tup, c[3])
         IN  IF v1 = "False" /\ v2 = "False" /\ v3 = "False" THEN "False"
             ELSE IF v1 = "True" /\ v2 = "True" /\ v3 = "True" THEN "True"
             ELSE FindWinnerFrom(tup, k + 1)

_find_winner(tup) == FindWinnerFrom(tup, 1)

\* the position a slice bound i stands for in a tuple of L cells: a negative
\* bound counts from the end, and bounds beyond either end are clipped
SliceIndex(L, i) ==
    IF i < 0 THEN (IF L + i < 0 THEN 0 ELSE L + i)
    ELSE IF i > L THEN L ELSE i

\* Mutant of make_move: a full board without a winner is not terminal
make_move_NoDrawTest(self, index) ==
    LET tup    == SubSeq(self.tup, 1, SliceIndex(Len(self.tup), index))
                    \o <<self.turn>>
                    \o SubSeq(self.tup, SliceIndex(Len(self.tup), index + 1) + 1,
                              Len(self.tup))
        turn   == Not(self.turn)
        winner == _find_winner(tup)
        is_terminal == (winner # "None")
    IN  TicTacToeBoard(tup, turn, winner, is_terminal)

\* Mutant of make_move: the spot is not marked
make_move_NoMark(self, index) ==
    LET tup    == self.tup
        turn   == Not(self.turn)
        winner == _find_winner(tup)
        is_terminal == (winner # "None") \/ ~(\E i \in 1..Len(tup) : tup[i] = "None")
    IN  TicTacToeBoard(tup, turn, winner, is_terminal)

\* self.tup[:index] + (self.turn,) + self.tup[index + 1:]: for an index that
\* is no spot of the board the slices still insert one mark (index -1 yields
\* a tuple of twice the cells)
make_move(self, index) ==
    LET tup    == SubSeq(self.tup, 1, SliceIndex(Len(self.tup), index))
                    \o <<self.turn>>
                    \o SubSeq(self.tup, SliceIndex(Len(self.tup), index + 1) + 1,
                              Len(self.tup))
        turn   == Not(self.turn)
        winner == _find_winner(tup)
        is_terminal == (winner # "None") \/ ~(\E i \in 1..Len(tup) : tup[i] = "None")
    IN  TicTacToeBoard(tup, turn, winner, is_terminal)

new_tic_tac_toe_board ==
    TicTacToeBoard([i \in 1..9 |-> "None"], "True", "None", FALSE)

\* [i for i, value in enumerate(self.tup) if value is None]
empty_spots(self) == {i \in 0..(Len(self.tup) - 1) : At(self.tup, i) = "None"}

TTT_find_children(self) ==
    IF self.terminal THEN {}
    ELSE {make_move(self, i) : i \in empty_spots(self)}

\* Mutant of TTT_find_random_child: the move is drawn among all nine spots
TTT_find_random_child_AnySpot(self) ==
    IF self.terminal THEN {<<>>}
    ELSE {<<make_move(self, i)>> : i \in 0..(Len(self.tup) - 1)}

\* The values find_random_child can return: None (the empty sequence) on a
\* terminal board, else make_move(choice(empty_spots)).
TTT_find_random_child(self) ==
    IF self.terminal THEN {<<>>}
    ELSE {<<make_move(self, i)>> : i \in empty_spots(self)}

\* reward(): [raised |-> exception name or "None", val |-> reward in halves]
TTT_reward(self) ==
    IF ~self.terminal THEN [raised |-> "RuntimeError", val |-> 0]
    ELSE IF self.winner = self.turn THEN [raised |-> "RuntimeError", val |-> 0]
    ELSE IF self.turn = Not(self.winner) THEN [raised |-> "None", val |-> 0]
    ELSE IF self.winner = "None" THEN [raised |-> "None", val |-> One \div 2]
    ELSE [raised |-> "RuntimeError", val |-> 0]

TTT_is_terminal(self) == self.terminal

\* The board after the moves of `moves` from the new board.
RECURSIVE Play(_, _)
Play(board, moves) ==
    IF moves = <<>> THEN board
    ELSE Play(make_move(board, Head(moves)), Tail(moves))

(***************************************************************************)
(* The one-ply example domain: a root with one decision and two terminal   *)
(* children whose reward() is 1.0 and 0.0.                                 *)
(***************************************************************************)
OnePlyRoot == [leaf |-> FALSE, value |-> 0]
OnePlyChild(r) == [leaf |-> TRUE, value |-> r]
OnePlyChildren == {OnePlyChild(One), OnePlyChild(0)}

OnePly_find_children(self) == IF self.leaf THEN {} ELSE OnePlyChildren

OnePly_find_random_child(self) ==
    IF self.leaf THEN {<<>>} ELSE {<<c>> : c \in OnePlyChildren}

OnePly_reward(self) ==
    IF ~self.leaf THEN [raised |-> "RuntimeError", val |-> 0]
    ELSE [raised |-> "None", val |-> self.value]

OnePly_is_terminal(self) == self.leaf

(***************************************************************************)
(* Node: the abstract operations, dispatched on the concrete type.         *)
(***************************************************************************)
IsBoard(n) == "tup" \in DOMAIN n

find_children(n) ==
    IF IsBoard(n) THEN TTT_find_children(n) ELSE OnePly_find_children(n)

find_random_child(n) ==
    IF IsBoard(n) THEN TTT_find_random_child(n) ELSE OnePly_find_random_child(n)

is_terminal(n) ==
    IF IsBoard(n) THEN TTT_is_terminal(n) ELSE OnePly_is_terminal(n)

node_reward(n) == IF IsBoard(n) THEN TTT_reward(n) ELSE OnePly_reward(n)

(***************************************************************************)
(* The positions a session starts from, and the nodes reachable from one.  *)
(***************************************************************************)
\* the third game opens with the index -1 (the input "1,0"), which play_game
\* accepts: its boards have 18 cells
StartMoves ==
    { <<0, 4, 8, 1, 7, 6, 5>>,
      <<0, 4, 8, 1, 7, 6, 2>>,
      <<-1, 4, 9, 7, 10, 12, 1, 3, 15, 14, 11, 2, 13, 17, 6, 16>> }

StartNodes == {Play(new_tic_tac_toe_board, m) : m \in StartMoves} \cup {OnePlyRoot}

RECURSIVE ReachFrom(_, _)
ReachFrom(frontier, seen) ==
    IF frontier = {} THEN seen
    ELSE LET next == UNION {find_children(n) : n \in frontier} \ seen
         IN  ReachFrom(next, seen \cup next)

\* s and every node some sequence of legal moves leads to from s
Reachable(s) == ReachFrom({s}, {s})

\* the nodes of each session
Positions == [s \in StartNodes |-> Reachable(s)]

(***************************************************************************)
(* defaultdict(int): a dict whose read of a missing key inserts it with 0. *)
(***************************************************************************)
\* the value d[k] reads
Get(d, k) == IF k \in DOMAIN d THEN d[k] ELSE 0

\* d after d[k] was read for every k of S
Touch(d, S) == [k \in DOMAIN d \cup S |-> Get(d, k)]

\* d after d[k] = v
Put(d, k, v) == [x \in DOMAIN d \cup {k} |-> IF x = k THEN v ELSE d[x]]

(***************************************************************************)
(* Outcomes of calls.                                                      *)
(***************************************************************************)
Returned(op, arg, val) == [op |-> op, arg |-> arg, val |-> val, raised |-> "None"]
Raised(op, arg, exc)   == [op |-> op, arg |-> arg, val |-> <<>>, raised |-> exc]

(***************************************************************************)
(* MCTS.__init__                                                           *)
(***************************************************************************)
exploration_weight == 1

Init ==
    /\ Q = <<>>
    /\ N = <<>>
    /\ children = <<>>
    /\ pc = "idle"
    /\ root = <<>>
    /\ node = <<>>
    /\ path = <<>>
    /\ invert_reward = TRUE
    /\ reward = 0
    /\ ret = Returned("__init__", <<>>, <<>>)
    /\ start \in StartNodes
    /\ rollouts = 0
    /\ chooses = 0
    /\ onPath = <<>>

(***************************************************************************)
(* MCTS.choose                                                             *)
(***************************************************************************)
\* Mutant of ScoreLess: an unseen node scores +inf instead of -inf
ScoreLess_UnseenBest(a, b) ==
    IF Get(N, a) = 0 THEN FALSE
    ELSE IF Get(N, b) = 0 THEN TRUE
    ELSE Get(Q, a) * Get(N, b) < Get(Q, b) * Get(N, a)

\* Mutant of ScoreLess: the visit count N[n] is the score, not the average
ScoreLess_Visits(a, b) == Get(N, a) < Get(N, b)

\* score(a) < score(b) for score = -inf when N = 0, else Q / N
ScoreLess(a, b) ==
    IF Get(N, b) = 0 THEN FALSE
    ELSE IF Get(N, a) = 0 THEN TRUE
    ELSE Get(Q, a) * Get(N, b) < Get(Q, b) * Get(N, a)

\* the values max(S, key=score) can return: a set iterates in no fixed order,
\* so any element no other element beats can come first
MaxByScore(S) == {c \in S : \A d \in S : ~ScoreLess(c, d)}

\* Mutant of choose_raises: the test of node.is_terminal() is missing
choose_raises_NoTerminalTest(n) ==
    IF n \in DOMAIN children /\ children[n] = {} THEN "ValueError"
    ELSE "None"

\* the exception choose(n) raises, or "None": RuntimeError on a terminal node,
\* ValueError from max() over an empty registered set
choose_raises(n) ==
    IF is_terminal(n) THEN "RuntimeError"
    ELSE IF n \in DOMAIN children /\ children[n] = {} THEN "ValueError"
    ELSE "None"

choose(n) ==
    /\ pc = "idle"
    /\ chooses < MaxChooses
    /\ chooses' = chooses + 1
    /\ IF choose_raises(n) # "None"
       THEN /\ ret' = Raised("choose", <<n>>, choose_raises(n))
            /\ UNCHANGED <<Q, N>>
       ELSE IF n \notin DOMAIN children
       THEN /\ \E r \in find_random_child(n) : ret' = Returned("choose", <<n>>, r)
            /\ UNCHANGED <<Q, N>>
       ELSE /\ \E c \in MaxByScore(children[n]) :
                    ret' = Returned("choose", <<n>>, <<c>>)
            /\ N' = Touch(N, children[n])
            /\ Q' = Touch(Q, {c \in children[n] : Get(N, c) # 0})
    /\ UNCHANGED <<children, pc, root, node, path, invert_reward, reward,
                   start, rollouts, onPath>>

(***************************************************************************)
(* MCTS._uct_select                                                        *)
(*                                                                         *)
(* Floats are compared in fixed point: math.log(k) as round(ln k * 10^8),  *)
(* the square root to 4 decimals.  For visit counts up to 8 the order (and *)
(* the ties) of these integers is the order of the floats uct(n) returns.  *)
(***************************************************************************)
Scale == 10000

\* round(math.log(k) * 10^8)
LogE8(k) ==
    CASE k = 1 -> 0
      [] k = 2 -> 69314718
      [] k = 3 -> 109861229
      [] k = 4 -> 138629436
      [] k = 5 -> 160943791
      [] k = 6 -> 179175947
      [] k = 7 -> 194591015
      [] k = 8 -> 207944154

\* floor(sqrt(x)) by bisection on lo..hi, lo * lo <= x < hi * hi
RECURSIVE SqrtBetween(_, _, _)
SqrtBetween(x, lo, hi) ==
    IF hi - lo <= 1 THEN lo
    ELSE LET mid == (lo + hi) \div 2
         IN  IF mid * mid <= x THEN SqrtBetween(x, mid, hi)
             ELSE SqrtBetween(x, lo, mid)

Sqrt(x) == SqrtBetween(x, 0, 2 * Scale)

\* uct(n) * Scale for a child n of `parent`:
\* Q[n] / N[n] + exploration_weight * sqrt(log_N_vertex / N[n])
uct(parent, n) ==
    (Scale * Get(Q, n)) \div (One * Get(N, n))
      + exploration_weight * Sqrt(LogE8(Get(N, parent)) \div Get(N, n))

\* the values max(children[node], key=uct) can return
MaxByUct(parent) ==
    {c \in children[parent] :
        \A d \in children[parent] : uct(parent, c) >= uct(parent, d)}

\* the exception _uct_select(node) raises before it compares, or "None"
UctRaises(parent) ==
    IF ~(\A n \in children[parent] : n \in DOMAIN children) THEN "AssertionError"
    ELSE IF Get(N, parent) = 0 THEN "ValueError"
    ELSE IF \E n \in children[parent] : Get(N, n) = 0 THEN "ZeroDivisionError"
    ELSE "None"

(***************************************************************************)
(* MCTS.do_rollout, one step at a time                                     *)
(***************************************************************************)
\* do_rollout(n) is called
do_rollout(n) ==
    /\ pc = "idle"
    /\ rollouts < MaxRollouts
    /\ pc' = "select"
    /\ root' = <<n>>
    /\ node' = <<n>>
    /\ path' = <<>>
    /\ ret' = Returned("do_rollout", <<n>>, <<>>)
    /\ UNCHANGED <<Q, N, children, invert_reward, reward, start, rollouts,
                   chooses, onPath>>

\* do_rollout is left: its locals are gone
Return ==
    /\ pc' = "idle"
    /\ root' = <<>>
    /\ node' = <<>>
    /\ path' = <<>>
    /\ invert_reward' = TRUE
    /\ reward' = 0

\* the exception leaves do_rollout; what the rollout wrote so far stays
Abort(exc) ==
    /\ Return
    /\ ret' = Raised("do_rollout", root, exc)

\* Mutant of unexplored: the keys of N stand for the expanded nodes
unexplored_Unvisited(n) == children[n] \ DOMAIN N

\* Mutant of unexplored: the expanded children are not taken out
unexplored_All(n) == children[n]

\* children[node] - children.keys()
unexplored(n) == children[n] \ DOMAIN children

\* one iteration of the loop of _select
_select ==
    /\ pc = "select"
    /\ LET cur   == node[1]
           path1 == Append(path, cur)
       IN  IF cur \notin DOMAIN children \/ children[cur] = {}
           THEN /\ path' = path1
                /\ pc' = "expand"
                /\ UNCHANGED <<node, ret, Q, N, root, invert_reward, reward>>
           ELSE IF unexplored(cur) # {}
           THEN /\ \E n \in unexplored(cur) : path' = Append(path1, n)
                /\ pc' = "expand"
                /\ UNCHANGED <<node, ret, Q, N, root, invert_reward, reward>>
           ELSE IF UctRaises(cur) # "None"
           THEN /\ Abort(UctRaises(cur))
                /\ IF UctRaises(cur) = "AssertionError"
                   THEN UNCHANGED <<Q, N>>
                   ELSE IF UctRaises(cur) = "ValueError"
                   THEN N' = Touch(N, {cur}) /\ UNCHANGED Q
                   ELSE \* max() reads Q[n] and N[n] of the children it
                        \* meets, up to the first one with N[n] = 0
                        \E z \in {c \in children[cur] : Get(N, c) = 0} :
                        \E met \in SUBSET {c \in children[cur] : Get(N, c) # 0} :
                            /\ N' = Touch(N, {cur, z} \cup met)
                            /\ Q' = Touch(Q, {z} \cup met)
           ELSE /\ \E n \in MaxByUct(cur) : node' = <<n>>
                /\ path' = path1
                /\ N' = Touch(N, {cur} \cup children[cur])
                /\ Q' = Touch(Q, children[cur])
                /\ UNCHANGED <<pc, ret, root, invert_reward, reward>>
    /\ UNCHANGED <<children, start, rollouts, chooses, onPath>>

\* Mutant of Expanded: the dict is replaced, self.children = {node: ...}
Expanded_Replaced(leaf) ==
    IF leaf \in DOMAIN children THEN children
    ELSE [x \in {leaf} |-> find_children(leaf)]

\* self.children after _expand(leaf)
Expanded(leaf) ==
    IF leaf \in DOMAIN children THEN children
    ELSE Put(children, leaf, find_children(leaf))

_expand ==
    /\ pc = "expand"
    /\ LET leaf == path[Len(path)]
       IN  /\ children' = Expanded(leaf)
           /\ node' = <<leaf>>
    /\ invert_reward' = TRUE
    /\ pc' = "simulate"
    /\ UNCHANGED <<Q, N, root, path, reward, ret, start, rollouts, chooses, onPath>>

\* Mutant of SimulateResult: invert_reward starts False, so that the reward
\* is inverted after an odd number of moves
SimulateResult_InvertOnOdd(t, invert) ==
    IF invert THEN node_reward(t).val ELSE One - node_reward(t).val

\* Mutant of SimulateResult: reward - 1 for 1 - reward
SimulateResult_Negated(t, invert) ==
    IF invert THEN node_reward(t).val - One ELSE node_reward(t).val

\* what _simulate returns on the terminal node t
SimulateResult(t, invert) ==
    IF invert THEN One - node_reward(t).val ELSE node_reward(t).val

\* one iteration of the loop of _simulate
_simulate ==
    /\ pc = "simulate"
    /\ LET cur == node[1]
       IN  IF is_terminal(cur)
           THEN IF node_reward(cur).raised # "None"
                THEN Abort(node_reward(cur).raised)
                ELSE /\ reward' = SimulateResult(cur, invert_reward)
                     /\ pc' = "backpropagate"
                     /\ UNCHANGED <<node, invert_reward, ret, root, path>>
           ELSE \E next_node \in find_random_child(cur) :
                  IF next_node = <<>>
                  THEN Abort("ValueError")
                  ELSE /\ node' = next_node
                       /\ invert_reward' = ~invert_reward
                       /\ UNCHANGED <<pc, ret, reward, root, path>>
    /\ UNCHANGED <<Q, N, children, start, rollouts, chooses, onPath>>

\* Mutant of BackpropagateFrom: the loop stops before the first node of the path
\* (reversed(path[1:]))
RECURSIVE BackpropagateFrom_SkipFirst(_, _, _, _, _)
BackpropagateFrom_SkipFirst(q, n, p, i, r) ==
    IF i <= 1 THEN [Q |-> q, N |-> n]
    ELSE BackpropagateFrom_SkipFirst(Put(q, p[i], Get(q, p[i]) + r),
                                     Put(n, p[i], Get(n, p[i]) + 1),
                                     p, i - 1, One - r)

\* Mutant of BackpropagateFrom: the reward is not inverted between the nodes
RECURSIVE BackpropagateFrom_NoFlip(_, _, _, _, _)
BackpropagateFrom_NoFlip(q, n, p, i, r) ==
    IF i = 0 THEN [Q |-> q, N |-> n]
    ELSE BackpropagateFrom_NoFlip(Put(q, p[i], Get(q, p[i]) + r),
                                  Put(n, p[i], Get(n, p[i]) + 1),
                                  p, i - 1, r)

\* [Q, N] after the loop of _backpropagate has handled path[i], ..., path[1]
RECURSIVE BackpropagateFrom(_, _, _, _, _)
BackpropagateFrom(q, n, p, i, r) ==
    IF i = 0 THEN [Q |-> q, N |-> n]
    ELSE BackpropagateFrom(Put(q, p[i], Get(q, p[i]) + r),
                           Put(n, p[i], Get(n, p[i]) + 1),
                           p, i - 1, One - r)

\* the nodes of a path
Nodes(p) == {p[i] : i \in 1..Len(p)}

_backpropagate ==
    /\ pc = "backpropagate"
    /\ LET after == BackpropagateFrom(Q, N, path, Len(path), reward)
       IN  /\ Q' = after.Q
           /\ N' = after.N
    /\ onPath' = [s \in DOMAIN onPath \cup Nodes(path) |->
                    Get(onPath, s) + (IF s \in Nodes(path) THEN 1 ELSE 0)]
    /\ rollouts' = rollouts + 1
    /\ Return
    /\ UNCHANGED ret
    /\ UNCHANGED <<children, start, chooses>>

(***************************************************************************)
(* visualize_mcts_tree(tree, root_node): add_nodes labels root_node and its *)
(* registered children with tree.Q[...] and tree.N[...]; the recursive     *)
(* call on a child finds it labelled and returns, so no node below the     *)
(* children is read.  Each read of a missing key inserts it.               *)
(***************************************************************************)
visualize_mcts_tree(n) ==
    /\ pc = "idle"
    /\ LET labelled == {n} \cup (IF n \in DOMAIN children THEN children[n] ELSE {})
       IN  /\ Q' = Touch(Q, labelled)
           /\ N' = Touch(N, labelled)
    /\ ret' = Returned("visualize_mcts_tree", <<n>>, <<>>)
    /\ UNCHANGED <<children, pc, root, node, path, invert_reward, reward,
                   start, rollouts, chooses, onPath>>

(***************************************************************************)
(* The engine is driven with any node reachable from the start position.   *)
(***************************************************************************)
Next ==
    \/ \E n \in Positions[start] : do_rollout(n)
    \/ _select
    \/ _expand
    \/ _simulate
    \/ _backpropagate
    \/ \E n \in Positions[start] : choose(n)
    \/ \E n \in Positions[start] : visualize_mcts_tree(n)

Spec == Init /\ [][Next]_vars

\* do_rollout runs synchronously in one thread: a call that has started takes
\* its next step as long as it has one
FairSpec ==
    /\ Spec
    /\ WF_vars(_select)
    /\ WF_vars(_expand)
    /\ WF_vars(_simulate)
    /\ WF_vars(_backpropagate)

(***************************************************************************)
(* Properties                                                              *)
(***************************************************************************)
\* every node the engine can hold statistics or children for
Known == Positions[start] \cup DOMAIN N \cup DOMAIN Q \cup DOMAIN children

\* C1: between do_rollout calls, the visit count of every state is the number
\* of completed rollouts whose selected path contained it, and a state on no
\* path has visit count 0 and total reward 0.
C1_VisitsCountPaths ==
    pc = "idle" =>
        \A s \in Known :
            /\ Get(N, s) = Get(onPath, s)
            /\ Get(onPath, s) = 0 => (Get(N, s) = 0 /\ Get(Q, s) = 0)

\* C1 witness: after rollouts from more than one root, some state was on two
\* paths, some on exactly one and some on none.
C1_Witness ==
    /\ pc = "idle"
    /\ rollouts >= 3
    /\ Get(N, start) < rollouts
    /\ \E s, t, u \in Positions[start] :
          Get(N, s) >= 2 /\ Get(N, t) = 1 /\ Get(N, u) = 0

\* C2: every visited state has 0 <= Q <= N (in halves: 0 <= Q <= One * N), so
\* the average reward lies in [0, 1].
C2_AverageInUnitInterval ==
    \A s \in Known : Get(N, s) > 0 => (0 <= Get(Q, s) /\ Get(Q, s) <= One * Get(N, s))

\* C2 witness: on tic-tac-toe boards, visited states with average 1, with
\* average 0 and with an average strictly between.
C2_Witness ==
    /\ IsBoard(start)
    /\ \E s, t, u \in Positions[start] :
          /\ Get(N, s) > 0 /\ Get(Q, s) = One * Get(N, s)
          /\ Get(N, t) > 0 /\ Get(Q, t) = 0
          /\ Get(N, u) > 1 /\ 0 < Get(Q, u) /\ Get(Q, u) < One * Get(N, u)

\* the state choose was just called on, and what it returned
ChooseArg == ret.arg[1]
ChooseVal == ret.val[1]

\* C3: choose on an expanded, non-terminal root with at least one visited
\* registered child returns a child, and never one with visit count 0.
C3_ChooseAvoidsUnvisited ==
    ( /\ ret.op = "choose"
      /\ ChooseArg \in DOMAIN children
      /\ ~is_terminal(ChooseArg)
      /\ \E c \in children[ChooseArg] : Get(N, c) > 0 )
    => ( /\ ret.raised = "None"
         /\ ret.val # <<>>
         /\ Get(N, ChooseVal) > 0 )

\* C3 witness: choose returned a visited child of a root that also has a
\* registered child with visit count 0.
C3_Witness ==
    /\ ret.op = "choose"
    /\ ret.raised = "None"
    /\ ChooseArg \in DOMAIN children
    /\ \E c \in children[ChooseArg] : Get(N, c) = 0
    /\ ret.val # <<>>
    /\ ChooseVal \in children[ChooseArg]
    /\ Get(N, ChooseVal) > 0

\* C4: choose on an expanded, non-terminal root with a visited child returns
\* a registered child whose average Q / N is at least the average of every
\* visited registered child.
C4_ChooseMaximisesAverage ==
    ( /\ ret.op = "choose"
      /\ ChooseArg \in DOMAIN children
      /\ ~is_terminal(ChooseArg)
      /\ \E c \in children[ChooseArg] : Get(N, c) > 0 )
    => ( /\ ret.val # <<>>
         /\ ChooseVal \in children[ChooseArg]
         /\ \A d \in children[ChooseArg] :
               Get(N, d) > 0 =>
                   Get(Q, ChooseVal) * Get(N, d) >= Get(Q, d) * Get(N, ChooseVal) )

\* C4 witness: choose returned the child of strictly greater average although
\* a sibling has the greater visit count.
C4_Witness ==
    /\ ret.op = "choose"
    /\ ret.raised = "None"
    /\ ChooseArg \in DOMAIN children
    /\ ret.val # <<>>
    /\ \E d \in children[ChooseArg] :
          /\ Get(N, d) > Get(N, ChooseVal)
          /\ Get(N, ChooseVal) > 0
          /\ Get(Q, ChooseVal) * Get(N, d) > Get(Q, d) * Get(N, ChooseVal)

\* C5: a choose call on a terminal state raises RuntimeError, returns no
\* state, and leaves Q, N and children as they were, whether or not the
\* state is a key of children.
C5_ChooseOnTerminalRaises ==
    [][ (chooses' # chooses /\ is_terminal(ret'.arg[1]))
        => ( /\ ret'.op = "choose"
             /\ ret'.raised = "RuntimeError"
             /\ ret'.val = <<>>
             /\ UNCHANGED <<Q, N, children>> ) ]_vars

\* C5 witness: choose raised RuntimeError on a terminal state that is a key
\* of children (registered with no children) and has been visited.
C5_Witness ==
    /\ ret.op = "choose"
    /\ ret.raised = "RuntimeError"
    /\ is_terminal(ChooseArg)
    /\ ChooseArg \in DOMAIN children
    /\ Get(N, ChooseArg) >= 1

\* C6: choose on a non-terminal board returns a state, never None, and that
\* state is a legal one-move successor of the board: a value of
\* find_random_child when the board is no key of children, a registered
\* child otherwise.
C6_ChooseReturnsSuccessor ==
    (ret.op = "choose" /\ IsBoard(ChooseArg) /\ ~is_terminal(ChooseArg))
    => ( /\ ret.raised = "None"
         /\ ret.val # <<>>
         /\ ChooseVal \in find_children(ChooseArg)
         /\ ChooseArg \in DOMAIN children => ChooseVal \in children[ChooseArg]
         /\ ChooseArg \notin DOMAIN children => ret.val \in find_random_child(ChooseArg) )

\* C6 witness: choose fell back to find_random_child on a non-terminal board
\* that was never expanded, on an engine that has expanded other boards.
C6_Witness ==
    /\ ret.op = "choose"
    /\ IsBoard(ChooseArg)
    /\ ~is_terminal(ChooseArg)
    /\ ChooseArg \notin DOMAIN children
    /\ DOMAIN children # {}
    /\ ret.val # <<>>
    /\ ChooseVal \in find_children(ChooseArg)

\* choose(root) was just called in the one-ply domain, the root is expanded
\* and both of its children have been visited
OnePlyChosenAfterBothVisited ==
    /\ start = OnePlyRoot
    /\ ret.op = "choose"
    /\ ret.arg = <<OnePlyRoot>>
    /\ OnePlyRoot \in DOMAIN children
    /\ \A c \in OnePlyChildren : Get(N, c) >= 1

\* C7 as stated: in the one-ply domain, once both children have been visited,
\* choose(root) returns the child whose reward() is 1.0.
C7_Original ==
    OnePlyChosenAfterBothVisited => ret.val = <<OnePlyChild(One)>>

\* C7 amended: in the one-ply domain, once both children have been visited,
\* choose(root) returns the child whose reward() is 0.0, every time: reward()
\* is the outcome for the player to move at the terminal state, so that child
\* is the win of the player who moves at the root.
C7_ChoosesChildOfRewardZero ==
    OnePlyChosenAfterBothVisited => ret.val = <<OnePlyChild(0)>>

\* C7 witness: choose(root) returned the child of reward() 0.0 after both
\* children were visited.
C7_Witness ==
    /\ OnePlyChosenAfterBothVisited
    /\ ret.val = <<OnePlyChild(0)>>
    /\ Get(N, OnePlyRoot) >= 3

\* the one-ply engine between calls, after k rollouts, all of them on the root
OnePlyAfterRootRollouts(k) ==
    /\ start = OnePlyRoot
    /\ pc = "idle"
    /\ rollouts = k
    /\ Get(onPath, OnePlyRoot) = k

\* the children of the one-ply root that have been visited
OnePlyVisitedChildren == {c \in OnePlyChildren : Get(N, c) > 0}

\* C8 as stated: in the one-ply domain, after exactly one do_rollout(root) on
\* a fresh engine exactly one child of the root is visited (N = 1), with
\* accumulated reward 0.0 or 1.0.
C8_Original ==
    OnePlyAfterRootRollouts(1) =>
        /\ Cardinality(OnePlyVisitedChildren) = 1
        /\ \A c \in OnePlyVisitedChildren : Get(N, c) = 1 /\ Get(Q, c) \in {0, One}

\* C8 amended: after exactly one do_rollout(root) on a fresh engine the only
\* visited state is the root (N = 1, accumulated reward 0.0 or 1.0) and no
\* child is visited; after exactly two do_rollout(root) calls exactly one
\* child is visited (N = 1), with accumulated reward 0.0 or 1.0.
C8_FirstRolloutVisitsRootOnly ==
    /\ OnePlyAfterRootRollouts(1) =>
          /\ OnePlyVisitedChildren = {}
          /\ Get(N, OnePlyRoot) = 1
          /\ Get(Q, OnePlyRoot) \in {0, One}
    /\ OnePlyAfterRootRollouts(2) =>
          /\ Cardinality(OnePlyVisitedChildren) = 1
          /\ \A c \in OnePlyVisitedChildren : Get(N, c) = 1 /\ Get(Q, c) \in {0, One}

\* C8 witness: two rollouts on the one-ply root have visited the root twice
\* and one child once.
C8_Witness ==
    /\ OnePlyAfterRootRollouts(2)
    /\ Get(N, OnePlyRoot) = 2
    /\ \E c \in OnePlyChildren : Get(N, c) = 1 /\ Get(Q, c) = One

\* C9: every key of children is mapped to find_children of that key, and no
\* step removes a key or changes the set it is mapped to.
C9_RegisteredChildrenStable ==
    /\ [](\A s \in DOMAIN children : children[s] = find_children(s))
    /\ [][\A s \in DOMAIN children :
             s \in DOMAIN children' /\ children'[s] = children[s]]_vars

\* C9 witness: a state that was expanded, whose children were each picked as
\* unexplored and expanded in turn, and that later rollouts passed again, is
\* still mapped to all of its children.
C9_Witness ==
    /\ pc = "idle"
    /\ \E s \in DOMAIN children :
          /\ children[s] # {}
          /\ children[s] = find_children(s)
          /\ Get(N, s) >= 3
          /\ \A c \in children[s] : c \in DOMAIN children


\* the number of marks on a board
Filled(b) == Cardinality({i \in 1..Len(b.tup) : b.tup[i] # "None"})

\* the number of moves that lead from the node `leaf` to the node t below it
Plies(leaf, t) ==
    IF IsBoard(leaf) THEN Filled(t) - Filled(leaf)
    ELSE IF t = leaf THEN 0 ELSE 1

\* C12 as stated: _simulate returns 1 - reward(t) when the number of moves
\* from the leaf to the terminal node t is odd, reward(t) when it is even.
C12_Original ==
    pc = "backpropagate" =>
        LET t == node[1]
            r == node_reward(t).val
        IN  reward = IF Plies(path[Len(path)], t) % 2 = 1 THEN One - r ELSE r

\* C12: _simulate returns 1 - reward(t) when the number of moves from the
\* leaf to the terminal node t is even (so 1 - reward(leaf) for a terminal
\* leaf), and reward(t) unchanged when it is odd.
C12_InvertsOnEvenPlies ==
    pc = "backpropagate" =>
        LET t == node[1]
            r == node_reward(t).val
        IN  reward = IF Plies(path[Len(path)], t) % 2 = 0 THEN One - r ELSE r

\* _simulate has returned on a terminal leaf whose reward() is 0
C12_Witness ==
    /\ pc = "backpropagate"
    /\ node[1] = path[Len(path)]
    /\ Plies(path[Len(path)], node[1]) = 0
    /\ node_reward(node[1]).val = 0
    /\ reward = One

\* C13: backpropagation adds the simulated value R to Q of the path nodes at
\* even distance from the leaf, 1 - R to those at odd distance, and nothing to
\* a node off the path.
C13_BackpropagationAlternates ==
    [][pc = "backpropagate" =>
          \A s \in Known \cup Nodes(path) :
              Get(Q', s) - Get(Q, s) =
                 IF s \in Nodes(path)
                 THEN LET i == CHOOSE j \in 1..Len(path) : path[j] = s
                      IN  IF (Len(path) - i) % 2 = 0 THEN reward ELSE One - reward
                 ELSE 0]_vars

\* two rollouts were rooted at c: the second had the path c, g and the
\* simulated value 1, of which g holds 1 and c the inverted 0
C13_Witness ==
    /\ pc = "idle"
    /\ rollouts = 2
    /\ \E c \in DOMAIN children :
          /\ Get(onPath, c) = 2
          /\ Get(N, c) = 2
          /\ Get(Q, c) = 0
          /\ \E g \in children[c] :
                Get(onPath, g) = 1 /\ Get(N, g) = 1 /\ Get(Q, g) = One

\* C14: while _select stands on a node with a registered child that is not
\* expanded, it appends one such child to the path and stops, so _uct_select
\* is not called there and its assertion never fails.
C14_UnexploredChildEndsDescent ==
    /\ [][(/\ pc = "select"
           /\ node[1] \in DOMAIN children
           /\ children[node[1]] \ DOMAIN children # {})
          => /\ pc' = "expand"
             /\ \E n \in children[node[1]] \ DOMAIN children :
                   path' = Append(Append(path, node[1]), n)]_vars
    /\ [](ret.raised # "AssertionError")

\* a descent of two nodes has ended with an unexpanded child of the second
C14_Witness ==
    /\ pc = "expand"
    /\ Len(path) = 3
    /\ path[3] \in children[path[2]]
    /\ path[3] \notin DOMAIN children

\* _select is about to call _uct_select(node)
UctInvoked ==
    /\ pc = "select"
    /\ node[1] \in DOMAIN children
    /\ children[node[1]] # {}
    /\ children[node[1]] \ DOMAIN children = {}

\* C15: when _uct_select(node) is called, node and each of its registered
\* children have been visited, so neither log(0) nor a division by zero occurs.
C15_UctSeesVisitedNodes ==
    /\ UctInvoked =>
          /\ Get(N, node[1]) >= 1
          /\ \A c \in children[node[1]] : Get(N, c) >= 1
          /\ UctRaises(node[1]) = "None"
    /\ ret.raised \notin {"ValueError", "ZeroDivisionError"}

\* _uct_select is about to be called on a node visited once, whose children
\* were all expanded by rollouts rooted below it
C15_Witness ==
    /\ UctInvoked
    /\ Get(N, node[1]) = 1
    /\ \A c \in children[node[1]] : Get(onPath, c) >= 1

\* C16: every do_rollout that has started returns, and it returns from
\* _backpropagate as one more completed rollout, never by an exception.
C16_RolloutTerminates ==
    /\ (pc # "idle") ~> (pc = "idle")
    /\ [][(pc # "idle" /\ pc' = "idle") =>
             /\ pc = "backpropagate"
             /\ rollouts' = rollouts + 1
             /\ ret' = Returned("do_rollout", root, <<>>)]_vars

\* four rollouts of the start position have returned, the last after a
\* descent through a child c to its child g
C16_Witness ==
    /\ pc = "idle"
    /\ ret = Returned("do_rollout", <<start>>, <<>>)
    /\ rollouts = 4
    /\ Get(onPath, start) = 4
    /\ \E c \in DOMAIN children :
          c \in children[start] /\ \E g \in children[c] : Get(N, g) = 1

\* C17: the path _select returns starts with the root, holds no node twice,
\* each later node is a registered child of the one before, and its last node
\* is unexpanded or registered without children; children gains a key only in
\* _expand, and then the leaf alone.
C17_PathIsChainToFrontier ==
    /\ [](pc = "expand" =>
            /\ path[1] = root[1]
            /\ \A i, j \in 1..Len(path) : i < j => path[i] # path[j]
            /\ \A i \in 2..Len(path) :
                  /\ path[i - 1] \in DOMAIN children
                  /\ path[i] \in children[path[i - 1]]
            /\ LET last == path[Len(path)]
               IN  last \notin DOMAIN children \/ children[last] = {})
    /\ [][DOMAIN children' # DOMAIN children =>
            /\ pc = "expand"
            /\ DOMAIN children' = DOMAIN children \cup {path[Len(path)]}]_vars

\* _expand has registered the last node of a path of three
C17_Witness ==
    /\ pc = "simulate"
    /\ Len(path) = 3
    /\ node[1] = path[3]
    /\ path[3] \in DOMAIN children
    /\ Get(onPath, path[3]) = 0

\* C18: a read of the statistics of an unseen node inserts no entry: a call
\* of choose leaves the key sets of Q, N and children as they were, and Q and
\* N gain keys in _backpropagate only.
C18_ReadsInsertNoKey ==
    [][/\ chooses' # chooses =>
            /\ DOMAIN Q' = DOMAIN Q
            /\ DOMAIN N' = DOMAIN N
            /\ DOMAIN children' = DOMAIN children
       /\ (DOMAIN Q' # DOMAIN Q \/ DOMAIN N' # DOMAIN N) => pc = "backpropagate"]_vars

\* C19: between rollouts a node is a key of children exactly when its visit
\* count is at least 1.
C19_ExpandedIffVisited ==
    pc = "idle" =>
        \A s \in Known : s \in DOMAIN children <=> Get(N, s) >= 1

\* after three rollouts and a choose, N has a key with count 0 that is not
\* expanded, and an expanded node visited twice
C19_Witness ==
    /\ pc = "idle"
    /\ rollouts >= 3
    /\ chooses >= 1
    /\ \E s \in DOMAIN N : N[s] = 0 /\ s \notin DOMAIN children
    /\ \E s \in DOMAIN children : Get(N, s) >= 2

(***************************************************************************)
(* Properties of the boards                                                *)
(***************************************************************************)
\* the Node contract between find_children, find_random_child, is_terminal
ChildrenAgree(b) ==
    /\ (find_children(b) = {}) <=> is_terminal(b)
    /\ (<<>> \in find_random_child(b)) <=> is_terminal(b)
    /\ is_terminal(b) => find_random_child(b) = {<<>>}
    /\ ~is_terminal(b) =>
          /\ find_random_child(b) # {}
          /\ \A r \in find_random_child(b) : r # <<>> /\ r[1] \in find_children(b)

\* C11: on every board reachable from the new board find_children is empty
\* exactly when the board is terminal, find_random_child returns None exactly
\* when it is terminal and a member of find_children otherwise; the same
\* holds of every node a playout stands on, and no rollout ends in the
\* ValueError of a playout that met None.  The first conjunct depends on no
\* variable and is stated of the state after construction.
C11_RandomChildAgreesWithChildren ==
    /\ ret.op = "__init__" =>
          \A b \in Reachable(new_tic_tac_toe_board) : ChildrenAgree(b)
    /\ node # <<>> => ChildrenAgree(node[1])
    /\ ret.raised # "ValueError"

\* a playout has reached a full board nobody won
C11_Witness ==
    /\ pc = "simulate"
    /\ node[1] # path[Len(path)]
    /\ IsBoard(node[1])
    /\ node[1].winner = "None"
    /\ empty_spots(node[1]) = {}
    /\ find_children(node[1]) = {}

\* C20: on every board a playout stands on a winner is the player who moved
\* last (winner = not turn); reward() is called on terminal boards only,
\* so no rollout ends in one of its RuntimeErrors, and returns 0 when there
\* is a winner, 0.5 for a draw.
C20_WinnerIsLastMover ==
    /\ (node # <<>> /\ IsBoard(node[1])) =>
          LET b == node[1]
          IN  /\ b.winner # "None" => b.winner = Not(b.turn)
              /\ is_terminal(b) =>
                    /\ TTT_reward(b).raised = "None"
                    /\ TTT_reward(b).val = IF b.winner # "None" THEN 0 ELSE One \div 2
    /\ pc = "backpropagate" => is_terminal(node[1])
    /\ ~(ret.op = "do_rollout" /\ ret.raised = "RuntimeError")

=============================================================================
